---- MODULE Spec2Model ----
(***************************************************************************)
(* A model of byterun's object layer (byterun/pyobj.py): C3 linearization  *)
(* of Class, attribute lookup on Object, closure cells wired by Frame,     *)
(* Generator resumption, Frame.line_number and Method calls.               *)
(*                                                                         *)
(* Each group of operations has its own specification (SpecMro, SpecAttr,  *)
(* SpecCells, SpecGen, SpecLine, SpecMethod) over its own variables; the   *)
(* variables of the other groups stay at their idle values.                *)
(***************************************************************************)
EXTENDS Integers, Sequences, FiniteSets, TLC

VARIABLES classes, clsLocals, initResult, objects, assigned, attrResult,
          frames, cellContents, lastStore, funcs, derefResult,
          generators, nextResult, lineFrame, lineResult, boundMethods, callResult

classVars == <<classes, clsLocals, initResult>>
attrVars == <<objects, assigned, attrResult>>

cellVars == <<frames, cellContents, lastStore, funcs, derefResult>>

genVars == <<generators, nextResult>>
lineVars == <<lineFrame, lineResult>>
methVars == <<boundMethods, callResult>>

vars == <<classVars, attrVars, cellVars, genVars, lineVars, methVars>>

\* The variables each group of operations leaves alone.
exceptAttr == <<cellVars, genVars, lineVars, methVars>>
exceptCells == <<classVars, attrVars, genVars, lineVars, methVars>>
exceptGen == <<classVars, attrVars, cellVars, lineVars, methVars>>
exceptLine == <<classVars, attrVars, cellVars, genVars, methVars>>
exceptMeth == <<classVars, attrVars, cellVars, genVars, lineVars>>

\* Python's None.
None == 0

(***************************************************************************)
(* Bounds                                                                  *)
(***************************************************************************)
MaxClasses == 4
MaxBases == 2
MaxObjects == 1
MaxFrames == 3
MaxCells == 2
MaxFuncs == 2
MaxGens == 1
MaxStack == 3
MaxTabLen == 4
MaxCursor == 9
MaxArgs == 2

(***************************************************************************)
(* Attribute names and values                                              *)
(***************************************************************************)
\* A key that is not in a dict.
Absent == "absent"

\* The attribute names of the model. "locals" is also the name of the field
\* in which Object and Class keep their attribute dict.
Names == {"x", "locals"}
AllNames == Names \cup {"__init__"}
\* The names assigned and read on classes.
ClassNames == {"x"}

\* Values a class body can hold: a plain value, a Function (__get__ only) and
\* a data descriptor (__get__ and __set__).
ClassVals == {"v7", "func", "datadesc"}
\* Values assigned to instance attributes.
InstVals == {"v5", "v6"}

\* hasattr(val, '__get__'), hasattr(val, '__set__')
HasGet(val) == val \in {"func", "datadesc"}
HasSet(val) == val = "datadesc"

EmptyDict == [n \in AllNames |-> Absent]
\* The method dicts handed to Class(name, bases, methods).
MethodDicts == {[EmptyDict EXCEPT !["__init__"] = "func"]}

(***************************************************************************)
(* Class: C3 linearization (pyobj.py 90-155)                               *)
(* A class is identified by its position in `classes`; classes[c] holds    *)
(* __bases__ and __mro__ of the c-th Class whose construction returned.    *)
(***************************************************************************)

\* [seq for seq in seqs if seq]
NonEmptySeqs(seqs) == SelectSeq(seqs, LAMBDA s : s # <<>>)

\* cand in s[1:]
InTail(cand, s) == \E i \in 2..Len(s) : s[i] = cand

\* A candidate search that takes the head of the first sequence unchecked.
FindCandFirstHead(nonemptyseqs, i) == nonemptyseqs[1][1]

\* The for loop that looks for a merge candidate among the heads, from the
\* i-th sequence on: the first head that is in no tail, or None.
RECURSIVE FindCand(_, _)
FindCand(nonemptyseqs, i) ==
    IF i > Len(nonemptyseqs) THEN None
    ELSE LET cand == nonemptyseqs[i][1]
             nothead == SelectSeq(nonemptyseqs, LAMBDA s : InTail(cand, s))
         IN  IF nothead # <<>> THEN FindCand(nonemptyseqs, i + 1) ELSE cand

\* for seq in nonemptyseqs: if seq[0] == cand: del seq[0]
RemoveCand(nonemptyseqs, cand) ==
    [k \in 1..Len(nonemptyseqs) |->
        IF nonemptyseqs[k][1] = cand THEN Tail(nonemptyseqs[k])
                                     ELSE nonemptyseqs[k]]

\* A merge that stops with what it has when no candidate is left, raising
\* nothing.
RECURSIVE mro_merge_noraise(_, _)
mro_merge_noraise(seqs, res) ==
    LET nonemptyseqs == NonEmptySeqs(seqs) IN
    IF nonemptyseqs = <<>> THEN [raised |-> FALSE, res |-> res]
    ELSE LET cand == FindCand(nonemptyseqs, 1) IN
         IF cand = None THEN [raised |-> FALSE, res |-> res]
         ELSE mro_merge_noraise(RemoveCand(nonemptyseqs, cand), Append(res, cand))

\* Class.mro_merge, the while loop with res so far; raised is the TypeError.
RECURSIVE mro_merge(_, _)
mro_merge(seqs, res) ==
    LET nonemptyseqs == NonEmptySeqs(seqs) IN
    IF nonemptyseqs = <<>> THEN [raised |-> FALSE, res |-> res]
    ELSE LET cand == FindCand(nonemptyseqs, 1) IN
         IF cand = None THEN [raised |-> TRUE, res |-> <<>>]
         ELSE mro_merge(RemoveCand(nonemptyseqs, cand), Append(res, cand))

\* The argument of mro_merge: [[c]] + [list(base.__mro__) ...] + [list(bases)]
MroSeqs(c, bases) ==
    <<<<c>>>> \o [k \in 1..Len(bases) |-> classes[bases[k]].mro] \o <<bases>>

\* Class._compute_mro
compute_mro(c, bases) == mro_merge(MroSeqs(c, bases), <<>>)

\* The tuples of existing classes a new class can name as its bases.
BaseTuples ==
    UNION {[1..n -> 1..Len(classes)] : n \in 0..MaxBases}

\* Class.__init__: the class exists only if _compute_mro returned.
ClassInit(bases, methods) ==
    /\ Len(classes) < MaxClasses
    /\ LET c == Len(classes) + 1
           m == compute_mro(c, bases)
       IN  IF m.raised
           THEN /\ UNCHANGED <<classes, clsLocals>>
                /\ initResult' = [bases |-> bases, raised |-> TRUE, cls |-> None]
           ELSE /\ classes' = Append(classes, [bases |-> bases, mro |-> m.res])
                /\ clsLocals' = Append(clsLocals, methods)
                /\ initResult' = [bases |-> bases, raised |-> FALSE, cls |-> c]
    /\ UNCHANGED <<attrVars, exceptAttr>>

(***************************************************************************)
(* Class / Object attribute lookup (pyobj.py 100-118, 157-219)             *)
(* objects[o] holds _class and locals of the o-th Object.  The Class and   *)
(* Object code exists only under PY2.                                      *)
(***************************************************************************)

\* The second argument handed to a __get__: a class, or something else.
OwnerClass(c) == [tag |-> "class", id |-> c, name |-> ""]
OwnerName(name) == [tag |-> "name", id |-> None, name |-> name]

\* Method.__init__
Method(obj, _class, func) == [im_self |-> obj, im_class |-> _class, im_func |-> func]
NoMethod == Method(None, OwnerName(""), "")

\* The outcome of an attribute read.
Result(kind, val, instance, owner, method, dict) ==
    [kind |-> kind, val |-> val, instance |-> instance, owner |-> owner,
     method |-> method, dict |-> dict]
Raw(val) == Result("raw", val, None, OwnerName(""), NoMethod, EmptyDict)
Raised(exc) == Result(exc, "", None, OwnerName(""), NoMethod, EmptyDict)

\* Function.__get__
Function_get(self, instance, owner, py2) ==
    IF instance # None
    THEN Result("Method", self, instance, owner, Method(instance, owner, self), EmptyDict)
    ELSE IF py2
         THEN Result("Method", self, None, owner, Method(None, owner, self), EmptyDict)
         ELSE Raw(self)

\* val.__get__(instance, owner): a Function binds itself; the __get__ of a
\* data descriptor is user code, kept as the call it received.
Get(val, instance, owner) ==
    IF val = "func" THEN Function_get(val, instance, owner, TRUE)
    ELSE Result("descget", val, instance, owner, NoMethod, EmptyDict)

\* The loop of Class.resolve_attr from the i-th entry of __mro__ on; Absent
\* stands for its AttributeError.
RECURSIVE ResolveFrom(_, _, _)
ResolveFrom(mro, i, name) ==
    IF i > Len(mro) THEN Absent
    ELSE IF clsLocals[mro[i]][name] # Absent THEN clsLocals[mro[i]][name]
         ELSE ResolveFrom(mro, i + 1, name)

\* Class.resolve_attr
resolve_attr(c, name) == ResolveFrom(classes[c].mro, 1, name)

\* Class.__getattr__
Class_getattr(c, name) ==
    LET val == resolve_attr(c, name) IN
    IF val = Absent THEN Raised("AttributeError")
    ELSE IF HasGet(val) THEN Get(val, None, OwnerClass(c))
         ELSE Raw(val)

\* Object.__getattr__
Object_getattr(o, name) ==
    LET val == resolve_attr(objects[o].cls, name)
        found == val # Absent
    IN  IF found /\ HasGet(val) /\ HasSet(val)
        THEN Get(val, o, OwnerName(name))
        ELSE IF objects[o].locals[name] # Absent THEN Raw(objects[o].locals[name])
        ELSE IF ~found THEN Raised("AttributeError")
        ELSE IF HasGet(val) THEN Get(val, o, OwnerClass(objects[o].cls))
        ELSE Raw(val)

\* The fields Object.__init__ sets on the Python object itself; Python finds
\* these by its normal lookup and calls __getattr__ only for other names.
ObjectFields == {"_class", "locals", "enable_setattr"}

\* getattr(o, name) on an Object
LoadAttr(o, name) ==
    IF name \in ObjectFields
    THEN Result("field", name, None, OwnerName(""), NoMethod, objects[o].locals)
    ELSE Object_getattr(o, name)

\* Object.__init__, called by Class.__call__: _class.resolve_attr('__init__')
\* is called with the new object; without a callable the construction raises.
ObjectInit(c) ==
    /\ Len(objects) < MaxObjects
    /\ c \in 1..Len(classes)
    /\ IF resolve_attr(c, "__init__") = "func"
       THEN /\ objects' = Append(objects, [cls |-> c, locals |-> EmptyDict])
            /\ assigned' = Append(assigned, EmptyDict)
            /\ attrResult' = [op |-> "new", obj |-> Len(objects) + 1, name |-> "",
                              res |-> Raw("")]
       ELSE /\ UNCHANGED <<objects, assigned>>
            /\ attrResult' = [op |-> "new", obj |-> None, name |-> "",
                              res |-> Raised("Error")]
    /\ UNCHANGED <<classVars, exceptAttr>>

\* Object.__setattr__ once enable_setattr is set; assigned remembers the
\* value of the last assignment to o.name.
ObjectSetattr(o, name, value) ==
    /\ o \in 1..Len(objects)
    /\ objects' = [objects EXCEPT ![o].locals[name] = value]
    /\ assigned' = [assigned EXCEPT ![o][name] = value]
    /\ attrResult' = [op |-> "set", obj |-> o, name |-> name, res |-> Raw(value)]
    /\ UNCHANGED <<classVars, exceptAttr>>

\* Reading o.name
ObjectGetattr(o, name) ==
    /\ o \in 1..Len(objects)
    /\ attrResult' = [op |-> "get", obj |-> o, name |-> name, res |-> LoadAttr(o, name)]
    /\ UNCHANGED <<objects, assigned, classVars, exceptAttr>>

\* Class.__setattr__ once enable_setattr is set
ClassSetattr(c, name, value) ==
    /\ c \in 1..Len(classes)
    /\ clsLocals' = [clsLocals EXCEPT ![c][name] = value]
    /\ attrResult' = [op |-> "cset", obj |-> c, name |-> name, res |-> Raw(value)]
    /\ UNCHANGED <<classes, initResult, objects, assigned, exceptAttr>>

\* Reading c.name on a class, for a name that is not a field of the Class
ClassGetattr(c, name) ==
    /\ c \in 1..Len(classes)
    /\ attrResult' = [op |-> "cget", obj |-> c, name |-> name, res |-> Class_getattr(c, name)]
    /\ UNCHANGED <<objects, assigned, classVars, exceptAttr>>

(***************************************************************************)
(* Cell and Frame: closure cells (pyobj.py 241-267, 273-310)               *)
(* frames is the chain of live frames, each the f_back of the next, the    *)
(* last one executing; a frame that returned is gone.  A Cell is           *)
(* identified by its position in cellContents.  funcs is the set of        *)
(* Function objects made so far, lastStore the last STORE_DEREF.           *)
(***************************************************************************)
Vars == {"n"}
Values == {1, 2}
NoCell == 0

\* The code objects of the program
\*     def outer():
\*         n = ...
\*         def inner(): ... n ...
\* co_cellvars and co_freevars of the module, of outer and of inner, and the
\* functions each body defines.
Code ==
    [module |-> [co_cellvars |-> <<>>, co_freevars |-> <<>>, defines |-> {"outer"}],
     outer  |-> [co_cellvars |-> <<"n">>, co_freevars |-> <<>>, defines |-> {"inner"}],
     inner  |-> [co_cellvars |-> <<>>, co_freevars |-> <<"n">>, defines |-> {}]]

NoCells == [v \in Vars |-> NoCell]

\* The func of a frame that is not the frame of a Function call.
NoFunc == [func_code |-> "module", func_closure |-> NoCells, seen |-> [v \in Vars |-> None]]
NoStore == [by |-> None, cell |-> NoCell, val |-> None]

\* Cell.get, Cell.set
Cell_get(contents, cell) == contents[cell]
Cell_set(contents, cell, value) == [contents EXCEPT ![cell] = value]

\* The frame that is executing (the VM's current frame).
CurrentFrame == Len(frames)

\* The position of var in the tuple vs, 0 if it is not there.
IndexIn(vs, var) ==
    IF \E i \in 1..Len(vs) : vs[i] = var
    THEN CHOOSE i \in 1..Len(vs) : vs[i] = var
    ELSE 0

\* A Frame.__init__ that gives the frame a Cell of its own for each free
\* variable, holding a copy of the value of the cell in f_back's table.
FrameInitCopy(f_code, f_locals, f_back, func) ==
    LET code == Code[f_code]
        cellvars == code.co_cellvars
        freevars == code.co_freevars
        base == Len(cellContents)
        backCells == [v \in Vars |->
                        IF IndexIn(cellvars, v) # 0 THEN base + IndexIn(cellvars, v)
                        ELSE frames[f_back].cells[v]]
        cells == [v \in Vars |->
                        IF IndexIn(cellvars, v) # 0 THEN base + IndexIn(cellvars, v)
                        ELSE IF IndexIn(freevars, v) # 0
                             THEN base + Len(cellvars) + IndexIn(freevars, v)
                             ELSE NoCell]
        copies == [i \in 1..Len(freevars) |->
                        IF backCells[freevars[i]] = NoCell THEN None
                        ELSE cellContents[backCells[freevars[i]]]]
    IN  /\ f_back # None
        /\ cellContents' = cellContents \o [i \in 1..Len(cellvars) |-> f_locals[cellvars[i]]] \o copies
        /\ UNCHANGED lastStore
        /\ frames' = Append([frames EXCEPT ![f_back].cells = backCells,
                                           ![f_back].fresh = FALSE],
                            [f_code |-> f_code, f_back |-> f_back,
                             cells |-> cells, func |-> func, fresh |-> TRUE])
        /\ derefResult' = [op |-> "call", frame |-> Len(frames) + 1,
                           var |-> "", val |-> None]

\* Frame.__init__ for the Frame of a call of func, up to self.cells: the new
\* frame's cell table, the cells published into f_back and the new cells.
\* The frame is pushed by the caller of this constructor.
FrameInit(f_code, f_locals, f_back, func) ==
    LET code == Code[f_code]
        cellvars == code.co_cellvars
        freevars == code.co_freevars
        base == Len(cellContents)
        \* for var in f_code.co_cellvars: a new Cell, in both tables
        backCells == [v \in Vars |->
                        IF IndexIn(cellvars, v) # 0 THEN base + IndexIn(cellvars, v)
                        ELSE frames[f_back].cells[v]]
        ownCells == [v \in Vars |->
                        IF IndexIn(cellvars, v) # 0 THEN base + IndexIn(cellvars, v)
                        ELSE NoCell]
        \* for var in f_code.co_freevars: the cell of f_back's table
        cells == [v \in Vars |->
                        IF IndexIn(freevars, v) # 0 THEN backCells[v] ELSE ownCells[v]]
        missing == \E i \in 1..Len(freevars) : backCells[freevars[i]] = NoCell
    IN  /\ f_back # None
        /\ cellContents' = cellContents \o [i \in 1..Len(cellvars) |-> f_locals[cellvars[i]]]
        /\ UNCHANGED lastStore
        /\ IF missing
           THEN \* the assert or the KeyError: no frame, the published cells stay
                /\ frames' = [frames EXCEPT ![f_back].cells = backCells,
                                            ![f_back].fresh = FALSE]
                /\ derefResult' = [op |-> "raise", frame |-> None, var |-> "", val |-> None]
           ELSE /\ frames' = Append([frames EXCEPT ![f_back].cells = backCells,
                                                   ![f_back].fresh = FALSE],
                                    [f_code |-> f_code, f_back |-> f_back,
                                     cells |-> cells, func |-> func, fresh |-> TRUE])
                /\ derefResult' = [op |-> "call", frame |-> Len(frames) + 1,
                                   var |-> "", val |-> None]

\* The cells a new function closes over: those of the defining frame's cell
\* table, for the free variables of its code.
ClosureOf(frame, f_code) ==
    [v \in Vars |->
        IF IndexIn(Code[f_code].co_freevars, v) # 0 THEN frames[frame].cells[v]
        ELSE NoCell]

\* Function.__init__, for a function defined by the executing frame; seen
\* remembers what the closed-over cells held at that time.
MakeFunction(f_code) ==
    /\ Cardinality(funcs) < MaxFuncs
    /\ f_code \in Code[frames[CurrentFrame].f_code].defines
    /\ LET closure == ClosureOf(CurrentFrame, f_code) IN
       funcs' = funcs \cup
                  {[func_code |-> f_code, func_closure |-> closure,
                    seen |-> [v \in Vars |->
                                IF closure[v] # NoCell
                                THEN Cell_get(cellContents, closure[v]) ELSE None]]}
    /\ derefResult' = [op |-> "def", frame |-> CurrentFrame, var |-> "", val |-> None]
    /\ UNCHANGED <<frames, cellContents, lastStore, exceptCells>>

\* Function.__call__ of a function that is not a generator: the VM makes the
\* Frame with the executing frame as f_back and runs it.  The functions of
\* the program take no arguments: callargs binds none of Vars.
Call(fn) ==
    /\ Len(frames) < MaxFrames
    /\ fn \in funcs
    /\ Len(cellContents) + Len(Code[fn.func_code].co_cellvars) <= MaxCells
    /\ FrameInit(fn.func_code, [v \in Vars |-> None], CurrentFrame, fn)
    /\ UNCHANGED <<funcs, exceptCells>>

\* The executing frame returns to its caller.
Return ==
    /\ Len(frames) > 1
    /\ frames' = SubSeq(frames, 1, Len(frames) - 1)
    /\ derefResult' = [op |-> "return", frame |-> CurrentFrame, var |-> "", val |-> None]
    /\ UNCHANGED <<cellContents, lastStore, funcs, exceptCells>>

\* STORE_DEREF in the executing frame: frame.cells[var].set(value)
StoreDeref(var, value) ==
    /\ frames[CurrentFrame].cells[var] # NoCell
    /\ cellContents' = Cell_set(cellContents, frames[CurrentFrame].cells[var], value)
    /\ lastStore' = [by |-> CurrentFrame, cell |-> frames[CurrentFrame].cells[var],
                     val |-> value]
    /\ derefResult' = [op |-> "store", frame |-> CurrentFrame, var |-> var, val |-> value]
    /\ UNCHANGED <<frames, funcs, exceptCells>>

\* LOAD_DEREF in the executing frame: frame.cells[var].get()
LoadDeref(var) ==
    /\ frames[CurrentFrame].cells[var] # NoCell
    /\ derefResult' = [op |-> "load", frame |-> CurrentFrame, var |-> var,
                       val |-> Cell_get(cellContents, frames[CurrentFrame].cells[var])]
    /\ UNCHANGED <<frames, cellContents, lastStore, funcs, exceptCells>>

(***************************************************************************)
(* Generator (pyobj.py 80-84, 337-359)                                     *)
(* generators[g] holds first and finished of the g-th Generator and the    *)
(* value stack of its gi_frame.                                            *)
(***************************************************************************)
\* What the frame yields or returns.
YieldVals == {1, 2}
\* The values a consumer may have for a resumption.
ResumeVals == {None, 1}
\* What vm.resume_frame does with the frame: it returns, an exception is
\* thrown out of it, or it runs to a yield.
Outcomes == {"return", "throw", "yield"}

\* Function.__call__ of a function whose code has CO_GENERATOR: the Frame is
\* made (stack = []) and wrapped by Generator.__init__; nothing runs.
GeneratorCall ==
    /\ Len(generators) < MaxGens
    /\ generators' = Append(generators, [first |-> TRUE, finished |-> FALSE, stack |-> <<>>])
    /\ nextResult' = [nextResult EXCEPT !.op = "call", !.gen = Len(generators) + 1]
    /\ UNCHANGED exceptGen

\* A resumption that pushes None whether or not it is the first.
PushAlways(first, stack) == Append(stack, None)

\* if not self.first: self.gi_frame.stack.append(None)
PushOnResume(first, stack) == IF ~first THEN Append(stack, None) ELSE stack

\* vm.resume_frame(frame): the frame's stack when the dispatch loop stops,
\* having consumed the top of the stack (consume) or not; a return or an
\* exception leaving the frame marks its generator finished.
resume_frame(gen, stack, outcome, consume) ==
    [stack |-> IF consume /\ stack # <<>> THEN SubSeq(stack, 1, Len(stack) - 1) ELSE stack,
     finished |-> gen.finished \/ outcome \in {"return", "throw"}]

\* Generator.next, with the run of vm.resume_frame it calls.  wanted is the
\* resume-value the consumer has for this resumption; next takes no argument
\* and cannot receive it.
GeneratorNext(g, wanted, outcome, y, consume) ==
    /\ g \in 1..Len(generators)
    /\ Len(generators[g].stack) < MaxStack
    /\ LET gen == generators[g]
           pushed == PushOnResume(gen.first, gen.stack)
           r == resume_frame(gen, pushed, outcome, consume)
       IN  /\ generators' = [generators EXCEPT ![g] =
                               [first |-> FALSE, finished |-> r.finished, stack |-> r.stack]]
           /\ nextResult' =
                 [op |-> "next", gen |-> g, wanted |-> wanted,
                  wasFirst |-> gen.first, wasFinished |-> gen.finished,
                  stackBefore |-> gen.stack,
                  resumed |-> TRUE, stackAtResume |-> pushed,
                  outcome |-> outcome, yielded |-> y,
                  kind |-> IF outcome = "throw" THEN "exception"
                           ELSE IF r.finished THEN "StopIteration" ELSE "value",
                  val |-> IF outcome # "throw" /\ ~r.finished THEN y ELSE None]
    /\ UNCHANGED exceptGen

(***************************************************************************)
(* Frame.line_number (pyobj.py 287-288, 317-334)                           *)
(* lineFrame holds co_lnotab and co_firstlineno of the frame's code, its   *)
(* f_lasti and its f_lineno.                                               *)
(***************************************************************************)
\* The octets of the line-number tables of the model.
LnotabBytes == {0, 2, 3, 4, 5}
FirstLines == {1, 10}

\* The tables: byte strings of any length up to MaxTabLen, odd ones included.
Lnotabs == UNION {[1..n -> LnotabBytes] : n \in 0..MaxTabLen}

\* zip(lnotab[0::2], lnotab[1::2]) has one pair for every two octets.
NumPairs(lnotab) == Len(lnotab) \div 2

\* The loop of line_number that stops when byte_num reaches f_lasti.
RECURSIVE WalkStopAtEqual(_, _, _, _, _)
WalkStopAtEqual(lnotab, k, byte_num, line_num, f_lasti) ==
    IF k > NumPairs(lnotab) THEN line_num
    ELSE LET byte_incr == lnotab[2 * k - 1]
             line_incr == lnotab[2 * k]
         IN  IF byte_num + byte_incr >= f_lasti THEN line_num
             ELSE WalkStopAtEqual(lnotab, k + 1, byte_num + byte_incr,
                                  line_num + line_incr, f_lasti)

\* The loop of line_number from the k-th pair on.
RECURSIVE Walk(_, _, _, _, _)
Walk(lnotab, k, byte_num, line_num, f_lasti) ==
    IF k > NumPairs(lnotab) THEN line_num
    ELSE LET byte_incr == lnotab[2 * k - 1]
             line_incr == lnotab[2 * k]
         IN  IF byte_num + byte_incr > f_lasti THEN line_num
             ELSE Walk(lnotab, k + 1, byte_num + byte_incr, line_num + line_incr, f_lasti)

\* Frame.line_number
line_number(frame) == Walk(frame.co_lnotab, 1, 0, frame.co_firstlineno, frame.f_lasti)

\* frame.line_number() is called.
LineNumber ==
    /\ lineResult' = [op |-> "line_number", frame |-> lineFrame, val |-> line_number(lineFrame)]
    /\ UNCHANGED <<lineFrame, exceptLine>>

\* The dispatch loop moves the instruction cursor.
SetLasti(i) ==
    /\ i # lineFrame.f_lasti
    /\ lineFrame' = [lineFrame EXCEPT !.f_lasti = i]
    /\ lineResult' = [op |-> "step", frame |-> lineFrame, val |-> 0]
    /\ UNCHANGED exceptLine

(***************************************************************************)
(* Method and Function.__get__ (pyobj.py 55-61, 221-238)                   *)
(* boundMethods is the set of Method objects made so far.                  *)
(***************************************************************************)
FuncNames == {"func", "g"}
Instances == {1, 2}
ArgVals == {7, 8}
ArgLists == UNION {[1..n -> ArgVals] : n \in 0..MaxArgs}
\* **kwargs: the value passed for the keyword k, if any.
KwargDicts == {[k |-> Absent], [k |-> "v7"]}

NoCall == [op |-> "none", method |-> NoMethod, args |-> <<>>, kwargs |-> [k |-> Absent],
           calls |-> <<>>, ret |-> None]

\* Function.__get__(instance, owner) makes a Method, or hands back the
\* function (PY3, no instance).
GetMethod(func, instance, py2) ==
    /\ LET r == Function_get(func, instance, OwnerClass(1), py2) IN
       /\ boundMethods' = IF r.kind = "Method" THEN boundMethods \cup {r.method}
                          ELSE boundMethods
       /\ callResult' = [NoCall EXCEPT !.op = "get", !.method = r.method]
    /\ UNCHANGED exceptMeth

\* The positional arguments of a Method call with the instance put last.
MethodArgsInstanceLast(m, args) ==
    IF m.im_self # None THEN args \o <<m.im_self>> ELSE args

\* The positional arguments Method.__call__ passes to im_func.
MethodArgs(m, args) ==
    IF m.im_self # None THEN <<m.im_self>> \o args ELSE args

\* Method.__call__: one call of im_func, whose return value (ret, decided by
\* the function's code) is returned.
MethodCall(m, args, kwargs, ret) ==
    /\ m \in boundMethods
    /\ callResult' = [op |-> "call", method |-> m, args |-> args, kwargs |-> kwargs,
                      calls |-> <<[callee |-> m.im_func, args |-> MethodArgs(m, args),
                                   kwargs |-> kwargs, ret |-> ret]>>,
                      ret |-> ret]
    /\ UNCHANGED <<boundMethods, exceptMeth>>

(***************************************************************************)
(* What a linearization has to satisfy, stated on the inheritance graph.   *)
(***************************************************************************)
Range(s) == {s[i] : i \in 1..Len(s)}

\* The position of x in the tuple m.
Pos(m, x) == CHOOSE i \in 1..Len(m) : m[i] = x

\* The proper ancestors of class c, from the __bases__ links alone.
RECURSIVE Ancestors(_)
Ancestors(c) ==
    UNION {{b} \cup Ancestors(b) : b \in Range(classes[c].bases)}

\* x comes before y in some sequence of seqs.
Prec(seqs) ==
    UNION {{<<seqs[k][p[1]], seqs[k][p[2]]>> :
               p \in {q \in (1..Len(seqs[k])) \X (1..Len(seqs[k])) : q[1] < q[2]}}
           : k \in 1..Len(seqs)}

\* The transitive closure of R.
RECURSIVE Closure(_)
Closure(R) ==
    LET RR == R \cup {<<pq[1][1], pq[2][2]>> : pq \in {pq \in R \X R : pq[1][2] = pq[2][1]}}
    IN  IF RR = R THEN R ELSE Closure(RR)

\* The inheritance graph of a class c with these bases is non-contradictory:
\* the orders its bases and their linearizations ask for have no cycle.
Consistent(c, bases) ==
    \A p \in Closure(Prec(MroSeqs(c, bases))) : p[1] # p[2]

\* The class the last construction was building.
Attempted == IF initResult.raised THEN Len(classes) + 1 ELSE initResult.cls

\* C1: a class with a non-contradictory inheritance graph is constructed, and
\* its linearization starts with the class, holds the class and its ancestors
\* once each, places every class before all of its ancestors and keeps each
\* base's own linearization order; A, B(A), C(A), D(B, C) gives D, B, C, A.
C1_Linearization ==
    /\ (initResult.cls # None \/ initResult.raised) =>
          (Consistent(Attempted, initResult.bases) => ~initResult.raised)
    /\ \A c \in 1..Len(classes) :
          LET m == classes[c].mro IN
          /\ m # <<>> /\ m[1] = c
          /\ Range(m) = {c} \cup Ancestors(c)
          /\ Cardinality(Range(m)) = Len(m)
          /\ \A x \in Range(m) : \A y \in Ancestors(x) : Pos(m, x) < Pos(m, y)
          /\ \A b \in Range(classes[c].bases) :
                LET bm == classes[b].mro IN
                \A i \in 1..Len(bm) : \A j \in 1..Len(bm) :
                    i < j => Pos(m, bm[i]) < Pos(m, bm[j])
    /\ (/\ Len(classes) >= 4
        /\ classes[1].bases = <<>> /\ classes[2].bases = <<1>>
        /\ classes[3].bases = <<1>> /\ classes[4].bases = <<2, 3>>)
          => classes[4].mro = <<4, 2, 3, 1>>

\* The diamond A, B(A), C(A), D(B, C) has been constructed.
C1_Witness ==
    /\ Len(classes) >= 4
    /\ classes[1].bases = <<>> /\ classes[2].bases = <<1>>
    /\ classes[3].bases = <<1>> /\ classes[4].bases = <<2, 3>>
    /\ initResult = [bases |-> <<2, 3>>, raised |-> FALSE, cls |-> 4]

\* C2: constructing a class whose bases disagree on the order of their
\* ancestors raises in Class.__init__ and adds no class; every class that
\* exists has a linearization that respects all the orders it was merged from.
C2_InconsistentFails ==
    /\ (initResult.cls # None \/ initResult.raised) =>
          (~Consistent(Attempted, initResult.bases) =>
              initResult.raised /\ initResult.cls = None)
    /\ \A c \in 1..Len(classes) :
          /\ Consistent(c, classes[c].bases)
          /\ \A p \in Prec(MroSeqs(c, classes[c].bases)) :
                /\ {p[1], p[2]} \subseteq Range(classes[c].mro)
                /\ Pos(classes[c].mro, p[1]) < Pos(classes[c].mro, p[2])

\* A, B(A) exist and constructing C(A, B) has just raised.
C2_Witness ==
    /\ Len(classes) >= 2
    /\ classes[2].bases = <<1>>
    /\ initResult = [bases |-> <<1, 2>>, raised |-> TRUE, cls |-> None]

IdleAttr ==
    /\ objects = <<>>
    /\ assigned = <<>>
    /\ attrResult = [op |-> "none", obj |-> None, name |-> "", res |-> Raw("")]

IdleCells ==
    /\ frames = <<>>
    /\ cellContents = <<>>
    /\ lastStore = NoStore
    /\ funcs = {}
    /\ derefResult = [op |-> "none", frame |-> None, var |-> "", val |-> None]

IdleGen ==
    /\ generators = <<>>
    /\ nextResult = [op |-> "none", gen |-> None, wanted |-> None,
                     wasFirst |-> FALSE, wasFinished |-> FALSE, stackBefore |-> <<>>,
                     resumed |-> FALSE, stackAtResume |-> <<>>,
                     outcome |-> "", yielded |-> None, kind |-> "", val |-> None]

IdleLine ==
    /\ lineFrame = [co_lnotab |-> <<>>, co_firstlineno |-> 1, f_lasti |-> 0, f_lineno |-> 1]
    /\ lineResult = [op |-> "none", frame |-> lineFrame, val |-> 0]

IdleMeth ==
    /\ boundMethods = {}
    /\ callResult = NoCall

IdleClasses ==
    /\ classes = <<>>
    /\ clsLocals = <<>>
    /\ initResult = [bases |-> <<>>, raised |-> FALSE, cls |-> None]

MroInit ==
    /\ classes = <<>>
    /\ clsLocals = <<>>
    /\ initResult = [bases |-> <<>>, raised |-> FALSE, cls |-> None]
    /\ IdleAttr /\ IdleCells /\ IdleGen /\ IdleLine /\ IdleMeth

MroNext ==
    \E bases \in BaseTuples : \E dict \in MethodDicts : ClassInit(bases, dict)

SpecMro == MroInit /\ [][MroNext]_vars

\* A read of o.name has just returned, and the class of o resolves name to a
\* data descriptor.
ReadOfDataDescriptor ==
    /\ attrResult.op = "get"
    /\ LET val == resolve_attr(objects[attrResult.obj].cls, attrResult.name)
       IN  HasGet(val) /\ HasSet(val)

\* C3: a read of instance.x whose class resolves x to a data descriptor
\* returns the descriptor's __get__ called with the instance and the class of
\* the instance, whatever the instance dict holds under x.
C3_DataDescriptorRead ==
    ReadOfDataDescriptor =>
        LET o == attrResult.obj
            val == resolve_attr(objects[o].cls, attrResult.name)
        IN  attrResult.res =
                Result("descget", val, o, OwnerClass(objects[o].cls), NoMethod, EmptyDict)

\* C4: when the class of the instance does not resolve x to a data
\* descriptor, a read of instance.x after instance.x = v returns v.
C4_SetThenRead ==
    (/\ attrResult.op = "get"
     /\ assigned[attrResult.obj][attrResult.name] # Absent
     /\ ~ReadOfDataDescriptor)
        => attrResult.res = Raw(assigned[attrResult.obj][attrResult.name])

\* The classes A and B(A), A defining __init__.
AttrInit ==
    /\ classes = <<[bases |-> <<>>, mro |-> <<1>>], [bases |-> <<1>>, mro |-> <<2, 1>>]>>
    /\ clsLocals = <<[EmptyDict EXCEPT !["__init__"] = "func"], EmptyDict>>
    /\ initResult = [bases |-> <<1>>, raised |-> FALSE, cls |-> 2]
    /\ IdleAttr /\ IdleCells /\ IdleGen /\ IdleLine /\ IdleMeth

AttrNext ==
    \/ \E c \in 1..Len(classes) : ObjectInit(c)
    \/ \E o \in 1..Len(objects) : \E name \in Names : \E value \in InstVals :
          ObjectSetattr(o, name, value)
    \/ \E o \in 1..Len(objects) : \E name \in Names : ObjectGetattr(o, name)
    \/ \E c \in 1..Len(classes) : \E name \in ClassNames : \E value \in ClassVals :
          ClassSetattr(c, name, value)
    \/ \E c \in 1..Len(classes) : \E name \in ClassNames : ClassGetattr(c, name)

SpecAttr == AttrInit /\ [][AttrNext]_vars

\* Frame f was made for a call by an outer frame that declares var as a cell
\* variable, has var as a free variable, is executing and has made no call
\* of its own yet.
InnerOf(f, var) ==
    /\ f = CurrentFrame
    /\ frames[f].fresh
    /\ IndexIn(Code[frames[f].f_code].co_freevars, var) # 0
    /\ frames[f].f_back # None
    /\ IndexIn(Code[frames[frames[f].f_back].f_code].co_cellvars, var) # 0

\* C5: the frame of an inner function called by the outer frame that declares
\* n as a cell variable maps n to the very Cell of the outer frame's cell
\* table, and its get returns what that Cell holds, the value last set on it.
C5_SharedCell ==
    \A f \in 1..Len(frames) : \A var \in Vars :
        InnerOf(f, var) =>
            LET outer == frames[f].f_back IN
            /\ frames[f].cells[var] # NoCell
            /\ frames[f].cells[var] = frames[outer].cells[var]
            /\ (derefResult.op = "load" /\ derefResult.frame = f /\ derefResult.var = var)
                  => /\ derefResult.val = Cell_get(cellContents, frames[outer].cells[var])
                     /\ lastStore.cell = frames[outer].cells[var]
                           => derefResult.val = lastStore.val

\* outer set n = 1, defined inner, set n = 2 and called inner, and inner has
\* read n as 2.
C5_Witness ==
    \E f \in 1..Len(frames) :
        /\ InnerOf(f, "n")
        /\ frames[f].func.seen["n"] = 1
        /\ lastStore = [by |-> frames[f].f_back, cell |-> frames[frames[f].f_back].cells["n"],
                        val |-> 2]
        /\ derefResult = [op |-> "load", frame |-> f, var |-> "n", val |-> 2]

\* C6: the cell table of every frame maps each free variable of its code to
\* the Cell its function captured when it was created, whoever called it and
\* whatever frames were constructed in between.
C6_CapturedCell ==
    \A f \in 1..Len(frames) : \A var \in Vars :
        (frames[f].func \in funcs /\ IndexIn(Code[frames[f].f_code].co_freevars, var) # 0)
            => frames[f].cells[var] = frames[f].func.func_closure[var]

\* The module's frame is executing; its code has no cell or free variables.
CellsInit ==
    /\ frames = <<[f_code |-> "module", f_back |-> None, cells |-> NoCells,
                   func |-> NoFunc, fresh |-> TRUE]>>
    /\ cellContents = <<>>
    /\ lastStore = NoStore
    /\ funcs = {}
    /\ derefResult = [op |-> "none", frame |-> None, var |-> "", val |-> None]
    /\ IdleClasses /\ IdleAttr /\ IdleGen /\ IdleLine /\ IdleMeth

CellsNext ==
    \/ \E f_code \in DOMAIN Code : MakeFunction(f_code)
    \/ \E fn \in funcs : Call(fn)
    \/ Return
    \/ \E var \in Vars : \E value \in Values : StoreDeref(var, value)
    \/ \E var \in Vars : LoadDeref(var)

SpecCells == CellsInit /\ [][CellsNext]_vars

\* A resumption has just been made.
Resumption == nextResult.op = "next"

\* C7 as stated: a resumption after the first, of a generator that is not
\* finished, pushes the resume-value supplied by its caller.
C7_PushesSuppliedValue ==
    (Resumption /\ ~nextResult.wasFirst /\ ~nextResult.wasFinished)
        => nextResult.stackAtResume = Append(nextResult.stackBefore, nextResult.wanted)

\* C7, amended: the first resumption hands the frame to resume_frame with its
\* stack as it was; every later resumption of a generator that is not
\* finished hands it over with exactly one more value, None, on top; and a
\* resumption whose frame yields returns the yielded value.
C7_ResumePushesNone ==
    Resumption =>
        /\ nextResult.wasFirst =>
              /\ nextResult.resumed
              /\ nextResult.stackAtResume = nextResult.stackBefore
        /\ (~nextResult.wasFirst /\ ~nextResult.wasFinished) =>
              /\ nextResult.resumed
              /\ nextResult.stackAtResume = Append(nextResult.stackBefore, None)
        /\ (~nextResult.wasFinished /\ nextResult.outcome = "yield") =>
              /\ nextResult.kind = "value"
              /\ nextResult.val = nextResult.yielded

\* A generator was resumed for the first time and yielded, and was resumed
\* again with one value on its stack and yielded again.
C7_Witness ==
    /\ Resumption
    /\ ~nextResult.wasFirst /\ ~nextResult.wasFinished
    /\ nextResult.stackBefore = <<>>
    /\ nextResult.stackAtResume = <<None>>
    /\ nextResult.kind = "value" /\ nextResult.val = 2

\* C8: a resumption of a finished generator signals StopIteration without
\* invoking resume_frame, leaves the frame's stack as it was and leaves the
\* generator finished.
C8_FinishedNotResumed ==
    (Resumption /\ nextResult.wasFinished) =>
        /\ nextResult.kind = "StopIteration"
        /\ ~nextResult.resumed
        /\ generators[nextResult.gen].stack = nextResult.stackBefore
        /\ generators[nextResult.gen].finished

GenInit == IdleGen /\ IdleClasses /\ IdleAttr /\ IdleCells /\ IdleLine /\ IdleMeth

GenNext ==
    \/ GeneratorCall
    \/ \E g \in 1..Len(generators) : \E wanted \in ResumeVals :
       \E outcome \in Outcomes : \E y \in YieldVals : \E consume \in BOOLEAN :
          GeneratorNext(g, wanted, outcome, y, consume)

SpecGen == GenInit /\ [][GenNext]_vars

\* The sum of the line increments of the first n pairs.
RECURSIVE LineSum(_, _)
LineSum(lnotab, n) == IF n = 0 THEN 0 ELSE LineSum(lnotab, n - 1) + lnotab[2 * n]

\* The byte offset accumulated over the first n pairs.
RECURSIVE ByteOffset(_, _)
ByteOffset(lnotab, n) == IF n = 0 THEN 0 ELSE ByteOffset(lnotab, n - 1) + lnotab[2 * n - 1]

\* The number of leading pairs whose accumulated byte offset is at most i.
Entered(lnotab, i) ==
    Cardinality({n \in 1..NumPairs(lnotab) :
                    \A j \in 1..n : ByteOffset(lnotab, j) <= i})

\* C9: line_number() returns co_firstlineno plus the line increments of the
\* leading pairs whose accumulated byte offset is at most f_lasti, and leaves
\* the frame as it was; with lines 10, 12, 15 at offsets 0, 4, 9 it gives 12
\* at f_lasti 6 and 15 at f_lasti 9.
C9_LineNumber ==
    lineResult.op = "line_number" =>
        LET fr == lineResult.frame IN
        /\ lineFrame = fr
        /\ lineResult.val =
              fr.co_firstlineno + LineSum(fr.co_lnotab, Entered(fr.co_lnotab, fr.f_lasti))
        /\ (fr.co_lnotab = <<4, 2, 5, 3>> /\ fr.co_firstlineno = 10) =>
              /\ fr.f_lasti = 6 => lineResult.val = 12
              /\ fr.f_lasti = 9 => lineResult.val = 15

\* line_number() was called at f_lasti 6 on the table of lines 10, 12, 15.
C9_Witness ==
    /\ lineResult.op = "line_number"
    /\ lineResult.frame.co_lnotab = <<4, 2, 5, 3>>
    /\ lineResult.frame.co_firstlineno = 10
    /\ lineResult.frame.f_lasti = 6
    /\ lineResult.val = 12

\* A Frame as Frame.__init__ leaves it: f_lasti = 0, f_lineno = co_firstlineno.
LineInit ==
    /\ \E lnotab \in Lnotabs : \E first \in FirstLines :
          lineFrame = [co_lnotab |-> lnotab, co_firstlineno |-> first,
                       f_lasti |-> 0, f_lineno |-> first]
    /\ lineResult = [op |-> "none", frame |-> lineFrame, val |-> 0]
    /\ IdleClasses /\ IdleAttr /\ IdleCells /\ IdleGen /\ IdleMeth

LineNext ==
    \/ LineNumber
    \/ \E i \in 0..MaxCursor : SetLasti(i)

SpecLine == LineInit /\ [][LineNext]_vars

\* C10: a call of a Method makes exactly one call, of its underlying
\* Function, with the instance followed by the given arguments if the Method
\* is bound and with the given arguments if it is not, and returns what that
\* call returns.
C10_MethodCall ==
    callResult.op = "call" =>
        LET m == callResult.method IN
        /\ Len(callResult.calls) = 1
        /\ callResult.calls[1].callee = m.im_func
        /\ callResult.calls[1].kwargs = callResult.kwargs
        /\ callResult.ret = callResult.calls[1].ret
        /\ m.im_self # None =>
              /\ Len(callResult.calls[1].args) = Len(callResult.args) + 1
              /\ callResult.calls[1].args[1] = m.im_self
              /\ \A i \in 1..Len(callResult.args) :
                    callResult.calls[1].args[i + 1] = callResult.args[i]
        /\ m.im_self = None => callResult.calls[1].args = callResult.args

\* A Method bound to instance 1 was called with (7, 8).
C10_Witness ==
    /\ callResult.op = "call"
    /\ callResult.method.im_self = 1
    /\ callResult.args = <<7, 8>>
    /\ callResult.calls[1].args = <<1, 7, 8>>

MethInit ==
    /\ boundMethods = {}
    /\ callResult = NoCall
    /\ IdleClasses /\ IdleAttr /\ IdleCells /\ IdleGen /\ IdleLine

MethNext ==
    \/ \E func \in FuncNames : \E instance \in Instances \cup {None} : \E py2 \in BOOLEAN :
          GetMethod(func, instance, py2)
    \/ \E m \in boundMethods : \E args \in ArgLists : \E kwargs \in KwargDicts :
       \E ret \in ArgVals :
          MethodCall(m, args, kwargs, ret)

SpecMethod == MethInit /\ [][MethNext]_vars

====
